---- MODULE Spec2Model ----
(***************************************************************************)
(* Model of backend/main.py: a FastAPI service with three GET routes on    *)
(* top of an asyncpg connection pool and one table, settings(id, name).    *)
(*                                                                         *)
(* Several service processes (replicas) share one PostgreSQL database.     *)
(* Each process runs lifespan(): init_db, then serves requests, then       *)
(* close_db.  Every await of the source is a separate step, so steps of    *)
(* different processes and of different requests interleave.               *)
(***************************************************************************)
EXTENDS Integers, Sequences, FiniteSets, TLC

\* ---- bounds of the model ----
NumProcs == 2       \* replicas started against the same database (SpecReplicas)
MaxInFlight == 3    \* concurrent requests of the process under Spec / SpecEnv
MaxExcess == 2      \* requests beyond the pool size in the burst of SpecPool

\* ---- program constants ----
MaxSize == 10       \* create_pool(max_size=10)

Procs == 1..NumProcs
Kinds == {"user", "health"}          \* the routes that use the pool
Names == {"Student", "Alice"}        \* names a settings row may hold
\* The default name misspelt in the INSERT.
DefaultNameLower == "student"
DefaultName == "Student"          \* the name init_db inserts

VARIABLES
  dbUp,         \* the database accepts connections and answers queries
  tableExists,  \* table settings exists
  rows,         \* rows of settings: records [id, name]
  nextId,       \* next value of the SERIAL sequence of settings.id
  db0,          \* the database as the deployment found it (never changes)
  phase,        \* per process: lifecycle of the global pool
  pc,           \* per process: position inside init_db
  pool,         \* per process: the global `pool`: "none", "open", "closed"
  checkedOut,   \* per process: connections acquired and not yet released
  count,        \* per process: init_db's local `count`
  steps,        \* per process: statements of init_db that have succeeded
  initError,    \* per process: the exception init_db raised, or "none"
  handled,      \* per process: a route handler has been entered
  startDb,      \* per process: the database when its init_db began, and
                \* whether no other process was inside init_db then
  wait,         \* per process, per route: handlers suspended in pool.acquire()
  hold,         \* per process, per route: handlers holding a connection
  mark,         \* per process: one request followed individually
  resp          \* the response sent last

vars == <<dbUp, tableExists, rows, nextId, db0, phase, pc, pool, checkedOut,
          count, steps, initError, handled, startDb, wait, hold, mark, resp>>

dbVars == <<tableExists, rows, nextId>>
initVars == <<pc, count, steps, initError, startDb>>
reqVars == <<wait, hold, mark, resp, handled>>

\* ------------------------------------------------------------------------
\* PostgreSQL statements issued by the program
\* ------------------------------------------------------------------------

\* CREATE TABLE settings (...), without IF NOT EXISTS: an existing table is an
\* error.
CreateTablePlain(exists, rs, nid) ==
  IF exists
    THEN [error |-> "DuplicateTable", exists |-> TRUE, rows |-> rs, nextId |-> nid]
    ELSE [error |-> "none", exists |-> TRUE, rows |-> {}, nextId |-> 1]

\* CREATE TABLE IF NOT EXISTS settings (...)
CreateTableIfNotExists(exists, rs, nid) ==
  IF exists
    THEN [error |-> "none", exists |-> TRUE, rows |-> rs, nextId |-> nid]
    ELSE [error |-> "none", exists |-> TRUE, rows |-> {}, nextId |-> 1]

\* SELECT COUNT(*) FROM settings
SelectCount(rs) == Cardinality(rs)

\* INSERT INTO settings (name) VALUES ($1)
InsertSetting(rs, nid, name) == rs \cup {[id |-> nid, name |-> name]}

\* SELECT name FROM settings LIMIT 1: no ORDER BY, so any row may come back.
\* <<>> is "no row" (fetchrow returns None), <<n>> a row whose name is n.
SelectNameLimit1(rs) == IF rs = {} THEN {<<>>} ELSE {<<r.name>> : r \in rs}

ConnError == "connection refused"
NoTableError == "relation \"settings\" does not exist"

\* ------------------------------------------------------------------------
\* Initial state
\* ------------------------------------------------------------------------

InitialDbs ==
  { [exists |-> FALSE, rows |-> {}],
    [exists |-> TRUE,  rows |-> {}],
    [exists |-> TRUE,  rows |-> {[id |-> 1, name |-> "Alice"]}] }

NoSnapshot == [taken |-> FALSE, exists |-> FALSE, rows |-> {}, sequential |-> FALSE]
NoMark == [st |-> "idle", kind |-> "none", ahead |-> 0]
NoResp == [kind |-> "none", status |-> 0, body |-> "",
           acq |-> "none", query |-> "none"]

Init ==
  /\ dbUp = TRUE
  /\ db0 \in InitialDbs
  /\ tableExists = db0.exists
  /\ rows = db0.rows
  /\ nextId = Cardinality(db0.rows) + 1
  /\ phase = [p \in Procs |-> "Uninitialized"]
  /\ pc = [p \in Procs |-> "idle"]
  /\ pool = [p \in Procs |-> "none"]
  /\ checkedOut = [p \in Procs |-> 0]
  /\ count = [p \in Procs |-> 0]
  /\ steps = [p \in Procs |-> {}]
  /\ initError = [p \in Procs |-> "none"]
  /\ handled = [p \in Procs |-> FALSE]
  /\ startDb = [p \in Procs |-> NoSnapshot]
  /\ wait = [p \in Procs |-> [k \in Kinds |-> 0]]
  /\ hold = [p \in Procs |-> [k \in Kinds |-> 0]]
  /\ mark = [p \in Procs |-> NoMark]
  /\ resp = NoResp

\* ------------------------------------------------------------------------
\* The asyncpg pool
\* ------------------------------------------------------------------------

\* A pool that hands out connections without a limit.
PoolHasFreeUnbounded(co) == TRUE

\* A connection can be handed out while fewer than max_size are checked out;
\* otherwise pool.acquire() stays suspended (no timeout is passed).
PoolHasFree(co) == co < MaxSize

\* What pool.acquire() gives once a pool slot is free.  With the database
\* unreachable it either raises while (re)connecting, or hands out a pooled
\* connection that is already dead, on which the next query raises.
AcquireOutcomes(up) == IF up THEN {"conn"} ELSE {"conn", "error"}

\* A release written after the block instead of by `async with`: skipped when
\* the block is left by an exception.
ReleaseOnReturnOnly(co, exit) == IF exit = "return" THEN co - 1 ELSE co

\* `async with pool.acquire()`: the connection goes back to the pool however
\* the block is left: "return", "http404" (HTTPException raised inside the
\* block) or "error" (a statement raised).
ReleaseOnExit(co, exit) == co - 1

\* close_db with the test inverted: `if not pool`.
ClosePoolInverted(pl) == IF pl = "none" THEN "closed" ELSE pl

\* close_db: `if pool: await pool.close()`
ClosePool(pl) == IF pl # "none" THEN "closed" ELSE pl

\* Requests of process p that have entered a pool-using handler and have not
\* been answered yet.
MarkActive(p) == mark[p].st \in {"waiting", "holding"}
WaitCount(p) == wait[p]["user"] + wait[p]["health"]
HoldCount(p) == hold[p]["user"] + hold[p]["health"]
InFlight(p) == WaitCount(p) + HoldCount(p) + (IF MarkActive(p) THEN 1 ELSE 0)

\* ------------------------------------------------------------------------
\* lifespan / init_db / close_db
\* ------------------------------------------------------------------------

\* A lifespan that swallows init_db's exception and yields anyway.
LifespanPhaseSwallow(initOk) == "Ready"

\* lifespan: `await init_db(); yield`.  The yield (state Ready) is reached only
\* when init_db returned; an exception leaves the lifespan, the server aborts
\* startup and the pool never gets past Initializing.
LifespanPhase(initOk) == IF initOk THEN "Ready" ELSE "Initializing"

\* `if count != 0`
NeedsDefaultInverted(c) == c # 0

\* `if count == 0`
NeedsDefault(c) == c = 0

\* create_pool(host=..., port=int(DB_PORT), ..., min_size=1, max_size=10)
CreatePoolError(portOk, up) ==
  IF ~portOk THEN "ConfigError" ELSE IF ~up THEN ConnError ELSE "none"

\* init_db raises err; holding says whether it is inside the `async with`.
\* Its local `count` is gone with its frame.
Abort(p, err, holding) ==
  /\ pc' = [pc EXCEPT ![p] = "aborted"]
  /\ count' = [count EXCEPT ![p] = 0]
  /\ initError' = [initError EXCEPT ![p] = err]
  /\ phase' = [phase EXCEPT ![p] = LifespanPhase(FALSE)]
  /\ checkedOut' = [checkedOut EXCEPT
                      ![p] = IF holding THEN ReleaseOnExit(@, "error") ELSE @]

\* init_db leaves the `async with` normally and returns.
Finish(p) ==
  /\ pc' = [pc EXCEPT ![p] = "done"]
  /\ count' = [count EXCEPT ![p] = 0]
  /\ phase' = [phase EXCEPT ![p] = LifespanPhase(TRUE)]
  /\ checkedOut' = [checkedOut EXCEPT ![p] = ReleaseOnExit(@, "return")]
  /\ UNCHANGED initError

\* The process starts: lifespan calls init_db.
Start(p) ==
  /\ phase[p] = "Uninitialized"
  /\ phase' = [phase EXCEPT ![p] = "Initializing"]
  /\ pc' = [pc EXCEPT ![p] = "create_pool"]
  /\ startDb' = [startDb EXCEPT
                   ![p] = [taken |-> TRUE, exists |-> tableExists, rows |-> rows,
                           sequential |-> \A q \in Procs \ {p} :
                                             pc[q] \in {"idle", "done", "aborted"}]]
  /\ UNCHANGED <<dbUp, dbVars, db0, pool, checkedOut, count, steps, initError,
                 reqVars>>

CreatePool(p) ==
  /\ pc[p] = "create_pool"
  /\ \E portOk \in BOOLEAN :
       LET err == CreatePoolError(portOk, dbUp) IN
       IF err = "none"
         THEN /\ pool' = [pool EXCEPT ![p] = "open"]
              /\ pc' = [pc EXCEPT ![p] = "acquire"]
              /\ steps' = [steps EXCEPT ![p] = @ \cup {"pool"}]
              /\ UNCHANGED <<phase, initError, checkedOut, count>>
         ELSE /\ Abort(p, err, FALSE)
              /\ UNCHANGED <<pool, steps>>
  /\ UNCHANGED <<dbUp, dbVars, db0, startDb, reqVars>>

InitAcquire(p) ==
  /\ pc[p] = "acquire"
  /\ PoolHasFree(checkedOut[p])
  /\ \E o \in AcquireOutcomes(dbUp) :
       IF o = "conn"
         THEN /\ checkedOut' = [checkedOut EXCEPT ![p] = @ + 1]
              /\ pc' = [pc EXCEPT ![p] = "create_table"]
              /\ UNCHANGED <<phase, initError, count>>
         ELSE Abort(p, ConnError, FALSE)
  /\ UNCHANGED <<dbUp, dbVars, db0, pool, steps, startDb, reqVars>>

InitCreateTable(p) ==
  /\ pc[p] = "create_table"
  /\ LET r == CreateTableIfNotExists(tableExists, rows, nextId) IN
     IF dbUp /\ r.error = "none"
       THEN /\ tableExists' = r.exists
            /\ rows' = r.rows
            /\ nextId' = r.nextId
            /\ pc' = [pc EXCEPT ![p] = "count"]
            /\ steps' = [steps EXCEPT ![p] = @ \cup {"table"}]
            /\ UNCHANGED <<phase, initError, checkedOut, count>>
       ELSE /\ Abort(p, IF dbUp THEN r.error ELSE ConnError, TRUE)
            /\ UNCHANGED <<dbVars, steps>>
  /\ UNCHANGED <<dbUp, db0, pool, startDb, reqVars>>

InitCount(p) ==
  /\ pc[p] = "count"
  /\ IF dbUp /\ tableExists
       THEN LET c == SelectCount(rows) IN
            /\ steps' = [steps EXCEPT ![p] = @ \cup {"count"}]
            /\ IF NeedsDefault(c)
                 THEN /\ count' = [count EXCEPT ![p] = c]
                      /\ pc' = [pc EXCEPT ![p] = "insert"]
                      /\ UNCHANGED <<phase, initError, checkedOut>>
                 ELSE Finish(p)
       ELSE /\ Abort(p, IF dbUp THEN NoTableError ELSE ConnError, TRUE)
            /\ UNCHANGED steps
  /\ UNCHANGED <<dbUp, dbVars, db0, pool, startDb, reqVars>>

InitInsert(p) ==
  /\ pc[p] = "insert"
  /\ IF dbUp /\ tableExists
       THEN /\ rows' = InsertSetting(rows, nextId, DefaultName)
            /\ nextId' = nextId + 1
            /\ steps' = [steps EXCEPT ![p] = @ \cup {"insert"}]
            /\ Finish(p)
       ELSE /\ Abort(p, IF dbUp THEN NoTableError ELSE ConnError, TRUE)
            /\ UNCHANGED <<rows, nextId, steps>>
  /\ UNCHANGED <<dbUp, tableExists, db0, pool, startDb, reqVars>>

\* The shutdown signal: the server stops accepting requests and lets the
\* handlers already running finish before it resumes the lifespan.
Shutdown(p) ==
  /\ phase[p] = "Ready"
  /\ phase' = [phase EXCEPT ![p] = "Closing"]
  /\ UNCHANGED <<dbUp, dbVars, db0, pool, checkedOut, initVars, reqVars>>

\* lifespan after the yield: close_db.  pool.close() returns when every
\* connection has been released and closed.
CloseDb(p) ==
  /\ phase[p] = "Closing"
  /\ InFlight(p) = 0
  /\ checkedOut[p] = 0
  /\ pool' = [pool EXCEPT ![p] = ClosePool(@)]
  /\ phase' = [phase EXCEPT ![p] = "Closed"]
  /\ UNCHANGED <<dbUp, dbVars, db0, checkedOut, initVars, reqVars>>

\* ------------------------------------------------------------------------
\* The database server as seen from the service
\* ------------------------------------------------------------------------

DbDown ==
  /\ dbUp
  /\ dbUp' = FALSE
  /\ UNCHANGED <<dbVars, db0, phase, pool, checkedOut, initVars, reqVars>>

DbUp ==
  /\ ~dbUp
  /\ dbUp' = TRUE
  /\ UNCHANGED <<dbVars, db0, phase, pool, checkedOut, initVars, reqVars>>

\* ------------------------------------------------------------------------
\* Route handlers
\* ------------------------------------------------------------------------

NoneTypeError == "'NoneType' object has no attribute 'acquire'"
PoolClosedError == "pool is closed"

\* pool.acquire() on the global `pool`: the outcomes it can produce now.  The
\* empty set means the caller stays suspended until a connection is released.
PoolAcquire(pl, co, up) ==
  IF pl = "none" THEN {[res |-> "error", msg |-> NoneTypeError]}
  ELSE IF pl = "closed" THEN {[res |-> "error", msg |-> PoolClosedError]}
  ELSE IF ~PoolHasFree(co) THEN {}
  ELSE {[res |-> o, msg |-> IF o = "conn" THEN "" ELSE ConnError] :
          o \in AcquireOutcomes(up)}

\* conn.fetchrow("SELECT name FROM settings LIMIT 1")
FetchRow(up, exists, rs) ==
  IF ~up THEN {[ok |-> FALSE, row |-> <<>>, msg |-> ConnError]}
  ELSE IF ~exists THEN {[ok |-> FALSE, row |-> <<>>, msg |-> NoTableError]}
  ELSE {[ok |-> TRUE, row |-> r, msg |-> ""] : r \in SelectNameLimit1(rs)}

\* conn.fetchval("SELECT 1")
FetchVal(up) ==
  IF up THEN {[ok |-> TRUE, row |-> <<"1">>, msg |-> ""]}
        ELSE {[ok |-> FALSE, row |-> <<>>, msg |-> ConnError]}

\* A response with the facts it rests on: acq and query tell how
\* pool.acquire() and the statement ended for this request ("none": not run).
Answer(k, r, acq, query) ==
  [kind |-> k, status |-> r.status, body |-> r.body, acq |-> acq, query |-> query]

\* The result of a statement that was never run.
NoQuery == [ok |-> FALSE, row |-> <<>>, msg |-> ""]

\* get_user answering every failure with 404.
GetUserResponseAll404(acqOk, q) ==
  IF acqOk /\ q.ok /\ q.row # <<>>
    THEN [status |-> 200, body |-> q.row[1]]
    ELSE [status |-> 404, body |-> "No user found"]

\* get_user: `if not row: raise HTTPException(404)`, else the row's name.  An
\* exception of pool.acquire() or fetchrow is not caught: the framework
\* answers 500.
GetUserResponse(acqOk, q) ==
  IF ~acqOk \/ ~q.ok THEN [status |-> 500, body |-> "Internal Server Error"]
  ELSE IF q.row = <<>> THEN [status |-> 404, body |-> "No user found"]
  ELSE [status |-> 200, body |-> q.row[1]]

\* How get_user leaves its `async with` block.
GetUserExit(q) ==
  IF ~q.ok THEN "error" ELSE IF q.row = <<>> THEN "http404" ELSE "return"

\* health_check with pool.acquire() outside the try: its exception is not
\* turned into 503.
HealthResponseAcquireUncaught(acqOk, acqMsg, q) ==
  IF acqOk /\ q.ok
    THEN [status |-> 200, body |-> "healthy/connected"]
  ELSE IF acqOk
    THEN [status |-> 503, body |-> "Unhealthy: " \o q.msg]
  ELSE [status |-> 500, body |-> "Internal Server Error"]

\* health_check: try ... except Exception as e: raise HTTPException(503,
\* f"Unhealthy: {str(e)}").  acqMsg / q.msg are the messages of the exceptions
\* raised by pool.acquire() and fetchval.
HealthResponse(acqOk, acqMsg, q) ==
  IF acqOk /\ q.ok
    THEN [status |-> 200, body |-> "healthy/connected"]
    ELSE [status |-> 503,
          body |-> "Unhealthy: " \o (IF acqOk THEN q.msg ELSE acqMsg)]

\* socket.gethostname(): the pod name
Hostname(p) == "pod-" \o ToString(p)

\* Whether a request of route k is suspended in pool.acquire() / holds a
\* connection; m tells the marked request from the others.
Waiting(p, k, m) ==
  IF m THEN mark[p].st = "waiting" /\ mark[p].kind = k ELSE wait[p][k] > 0
Holding(p, k, m) ==
  IF m THEN mark[p].st = "holding" /\ mark[p].kind = k ELSE hold[p][k] > 0

\* Waiters are resumed in arrival order: mark[p].ahead counts the requests
\* that called pool.acquire() before the marked one and still wait.
AtHead(p, m) ==
  IF m THEN mark[p].ahead = 0 ELSE (mark[p].st = "waiting" => mark[p].ahead > 0)

\* A request of route k leaves the wait queue; it holds a connection
\* afterwards (granted) or its handler is finished.
LeaveQueue(p, k, m, granted) ==
  IF m
    THEN /\ mark' = [mark EXCEPT ![p].st = IF granted THEN "holding" ELSE "done"]
         /\ UNCHANGED <<wait, hold>>
    ELSE /\ wait' = [wait EXCEPT ![p][k] = @ - 1]
         /\ hold' = [hold EXCEPT ![p][k] = IF granted THEN @ + 1 ELSE @]
         /\ mark' = [mark EXCEPT ![p].ahead =
                        IF mark[p].st = "waiting" THEN @ - 1 ELSE @]

\* A request of route k that held a connection is answered.
LeaveHold(p, k, m) ==
  IF m
    THEN /\ mark' = [mark EXCEPT ![p].st = "done"]
         /\ UNCHANGED hold
    ELSE /\ hold' = [hold EXCEPT ![p][k] = @ - 1]
         /\ UNCHANGED mark

\* A GET /api/user or GET /api/health request is dispatched to its handler,
\* which calls pool.acquire().  cap bounds the requests in flight.
Arrive(p, k, m, cap) ==
  /\ phase[p] = "Ready"
  /\ InFlight(p) < cap
  /\ IF m
       THEN /\ mark[p].st = "idle"
            /\ mark' = [mark EXCEPT
                          ![p] = [st |-> "waiting", kind |-> k, ahead |-> WaitCount(p)]]
            /\ UNCHANGED wait
       ELSE /\ wait' = [wait EXCEPT ![p][k] = @ + 1]
            /\ UNCHANGED mark
  /\ handled' = [handled EXCEPT ![p] = TRUE]
  /\ UNCHANGED <<dbUp, dbVars, db0, phase, pool, checkedOut, initVars, hold, resp>>

\* `async with pool.acquire() as conn` returns or raises.
Acquire(p, k, m) ==
  /\ Waiting(p, k, m)
  /\ AtHead(p, m)
  /\ \E o \in PoolAcquire(pool[p], checkedOut[p], dbUp) :
       IF o.res = "conn"
         THEN /\ checkedOut' = [checkedOut EXCEPT ![p] = @ + 1]
              /\ LeaveQueue(p, k, m, TRUE)
              /\ UNCHANGED resp
         ELSE /\ resp' = Answer(k, IF k = "user"
                                        THEN GetUserResponse(FALSE, NoQuery)
                                        ELSE HealthResponse(FALSE, o.msg, NoQuery),
                                   "error", "none")
              /\ LeaveQueue(p, k, m, FALSE)
              /\ UNCHANGED checkedOut
  /\ UNCHANGED <<dbUp, dbVars, db0, phase, pool, initVars, handled>>

\* get_user: the body of the `async with`, and leaving it.
GetUserQuery(p, m) ==
  /\ Holding(p, "user", m)
  /\ \E q \in FetchRow(dbUp, tableExists, rows) :
       /\ resp' = Answer("user", GetUserResponse(TRUE, q), "ok",
                         IF ~q.ok THEN "error"
                         ELSE IF q.row = <<>> THEN "norow" ELSE "row")
       /\ checkedOut' = [checkedOut EXCEPT ![p] = ReleaseOnExit(@, GetUserExit(q))]
  /\ LeaveHold(p, "user", m)
  /\ UNCHANGED <<dbUp, dbVars, db0, phase, pool, initVars, wait, handled>>

\* health_check: the body of the `async with`, and leaving it.
HealthQuery(p, m) ==
  /\ Holding(p, "health", m)
  /\ \E q \in FetchVal(dbUp) :
       /\ resp' = Answer("health", HealthResponse(TRUE, "", q), "ok",
                         IF q.ok THEN "ok" ELSE "error")
       /\ checkedOut' = [checkedOut EXCEPT
                           ![p] = ReleaseOnExit(@, IF q.ok THEN "return" ELSE "error")]
  /\ LeaveHold(p, "health", m)
  /\ UNCHANGED <<dbUp, dbVars, db0, phase, pool, initVars, wait, handled>>

\* get_container_id: no await, no pool.
GetContainerId(p) ==
  /\ phase[p] = "Ready"
  /\ resp' = Answer("id", [status |-> 200, body |-> Hostname(p)], "none", "none")
  /\ handled' = [handled EXCEPT ![p] = TRUE]
  /\ UNCHANGED <<dbUp, dbVars, db0, phase, pool, checkedOut, initVars, wait, hold,
                 mark>>

\* ------------------------------------------------------------------------
\* Writes to settings made outside the service (get_user's docstring: "When
\* the name changes in the database, refreshing the page will show the
\* updated name"; its 404 branch: the row may be gone).
\* ------------------------------------------------------------------------

AdminDelete ==
  /\ dbUp /\ tableExists
  /\ \E r \in rows : rows' = rows \ {r}
  /\ UNCHANGED <<dbUp, tableExists, nextId, db0, phase, pool, checkedOut,
                 initVars, reqVars>>

AdminRename ==
  /\ dbUp /\ tableExists
  /\ \E r \in rows : \E n \in Names \ {r.name} :
       rows' = (rows \ {r}) \cup {[id |-> r.id, name |-> n]}
  /\ UNCHANGED <<dbUp, tableExists, nextId, db0, phase, pool, checkedOut,
                 initVars, reqVars>>

\* ------------------------------------------------------------------------
\* Specifications
\* ------------------------------------------------------------------------

Lifecycle(p) ==
  \/ Start(p)
  \/ CreatePool(p)
  \/ InitAcquire(p)
  \/ InitCreateTable(p)
  \/ InitCount(p)
  \/ InitInsert(p)
  \/ Shutdown(p)
  \/ CloseDb(p)

Requests(p) ==
  \/ \E k \in Kinds : Arrive(p, k, FALSE, MaxInFlight)
  \/ \E k \in Kinds : Acquire(p, k, FALSE)
  \/ GetUserQuery(p, FALSE)
  \/ HealthQuery(p, FALSE)
  \/ GetContainerId(p)

\* One service process with its requests, and the database server.
ServeProc == 1

Next ==
  \/ Lifecycle(ServeProc)
  \/ Requests(ServeProc)
  \/ DbDown
  \/ DbUp

Spec == Init /\ [][Next]_vars

\* The same, and writers to the settings table outside the service.
NextEnv ==
  \/ Next
  \/ AdminDelete
  \/ AdminRename

SpecEnv == Init /\ [][NextEnv]_vars

\* Replicas of the service started against the same database, in any
\* interleaving of the statements of their init_db.
NextReplicas ==
  \/ \E p \in Procs : Lifecycle(p)
  \/ DbDown
  \/ DbUp

SpecReplicas == Init /\ [][NextReplicas]_vars

\* One process under a burst of GET /api/user requests larger than the pool,
\* one request among them (of either route) followed individually.
BurstProc == 1
BurstCap == MaxSize + MaxExcess

Burst ==
  \/ Arrive(BurstProc, "user", FALSE, BurstCap)
  \/ \E k \in Kinds : Arrive(BurstProc, k, TRUE, BurstCap)
  \/ Acquire(BurstProc, "user", FALSE)
  \/ \E k \in Kinds : Acquire(BurstProc, k, TRUE)
  \/ GetUserQuery(BurstProc, FALSE)
  \/ GetUserQuery(BurstProc, TRUE)
  \/ HealthQuery(BurstProc, TRUE)

NextPool ==
  \/ Lifecycle(BurstProc)
  \/ Burst
  \/ DbDown
  \/ DbUp

\* The event loop runs every task that can run: a handler that can take a
\* connection does, and a handler holding one finishes its query.
FairPool ==
  /\ WF_vars(Acquire(BurstProc, "user", FALSE))
  /\ WF_vars(\E k \in Kinds : Acquire(BurstProc, k, TRUE))
  /\ WF_vars(GetUserQuery(BurstProc, FALSE))
  /\ WF_vars(GetUserQuery(BurstProc, TRUE))
  /\ WF_vars(HealthQuery(BurstProc, TRUE))

SpecPool == Init /\ [][NextPool]_vars /\ FairPool

\* ------------------------------------------------------------------------
\* Properties
\* ------------------------------------------------------------------------

\* The deployment found the settings table absent or empty.
Fresh == db0.rows = {}

Serving == {"Ready", "Closing", "Closed"}

\* C1: once a process's init_db has returned, settings holds at least one row,
\* and no step of a GET /api/user, /api/id or /api/health request changes
\* the table, its rows or its id sequence.
C1_SettingsNonEmpty ==
  /\ [](\A p \in Procs : pc[p] = "done" => tableExists /\ rows # {})
  /\ [][(wait' # wait \/ hold' # hold \/ resp' # resp \/ handled' # handled)
          => UNCHANGED dbVars]_vars

C1_Witness ==
  \E p \in Procs : pc[p] = "done" /\ handled[p] /\ resp.kind = "id" /\ rows # {}

\* C2 as stated: on a fresh deployment every GET /api/user answers 200 with
\* the name "Student".
C2_AlwaysStudent200 ==
  (Fresh /\ resp.kind = "user") => (resp.status = 200 /\ resp.body = "Student")

\* C2 amended: on a fresh deployment a GET /api/user answers 200 with the name
\* "Student" unless pool.acquire() or the query raised, and then it answers
\* 500; it never answers 404.
C2_StudentUnlessDbError ==
  (Fresh /\ resp.kind = "user") =>
     /\ resp.status \in {200, 500}
     /\ resp.status = 200 => resp.body = "Student"
     /\ resp.status = 500 <=> (resp.acq = "error" \/ resp.query = "error")

C2_Witness == Fresh /\ resp.kind = "user" /\ resp.status = 200

\* C3: when no request of a process is in flight and its init_db is not
\* inside its `async with`, none of its pool's connections is checked out.
C3_AllReleased ==
  \A p \in Procs :
    (InFlight(p) = 0 /\ pc[p] \notin {"create_table", "count", "insert"})
       => checkedOut[p] = 0

C3_Witness ==
  /\ resp.kind = "user" /\ resp.status = 404
  /\ InFlight(ServeProc) = 0
  /\ initError[ServeProc] = "none"

\* C4: never more than max_size = 10 connections are checked out; a request
\* that waits while 10 are checked out keeps waiting (it is not answered); a
\* waiting request leaves the queue unanswered only for a connection, or
\* answered because the database refused the connection; and every waiting
\* request eventually gets its connection or its answer, and is answered.
C4_PoolBound ==
  /\ [](\A p \in Procs : checkedOut[p] <= MaxSize)
  /\ [][(mark[BurstProc].st = "waiting" /\ checkedOut[BurstProc] = MaxSize)
          => mark'[BurstProc].st = "waiting"]_vars
  /\ [][(mark[BurstProc].st = "waiting" /\ mark'[BurstProc].st = "done")
          => (~dbUp /\ resp'.acq = "error" /\ resp'.body \in
                {"Internal Server Error", "Unhealthy: " \o ConnError})]_vars
  /\ (mark[BurstProc].st = "waiting") ~> (mark[BurstProc].st \in {"holding", "done"})
  /\ (mark[BurstProc].st = "holding") ~> (mark[BurstProc].st = "done")

C4_Witness ==
  /\ mark[BurstProc].st = "waiting"
  /\ checkedOut[BurstProc] = MaxSize
  /\ mark[BurstProc].ahead > 0

\* C5: a GET /api/health answers 200 "healthy/connected" exactly when
\* pool.acquire() and SELECT 1 both succeeded (so the database answered);
\* otherwise it answers 503 with "Unhealthy: " and the exception's message,
\* also for the exceptions of pool.acquire() on a pool that was never created
\* or is closed.
C5_HealthMapping ==
  /\ [](\A pl \in {"none", "closed"} : \A p \in Procs :
          \A o \in PoolAcquire(pl, checkedOut[p], dbUp) :
             /\ o.res = "error"
             /\ HealthResponse(FALSE, o.msg, NoQuery)
                  = [status |-> 503, body |-> "Unhealthy: " \o o.msg])
  /\ [][(resp' # resp /\ resp'.kind = "health") =>
         /\ resp'.status = 200 <=> (resp'.acq = "ok" /\ resp'.query = "ok")
         /\ resp'.status = 200 => (dbUp /\ resp'.body = "healthy/connected")
         /\ resp'.status # 200 =>
              /\ resp'.status = 503
              /\ ~dbUp
              /\ resp'.body = "Unhealthy: " \o ConnError]_vars

C5_Witness == resp.kind = "health" /\ resp.status = 503 /\ resp.acq = "error"

\* C6: a GET /api/user answers 404 exactly when its query returned no row
\* (the table was empty); when the query returned a row it answers 200 with
\* the name of a row stored then; when pool.acquire() or the query raised it
\* answers 500.
C6_UserMapping ==
  [][(resp' # resp /\ resp'.kind = "user") =>
       /\ resp'.status = 404 <=> resp'.query = "norow"
       /\ resp'.query = "norow" <=> (resp'.acq = "ok" /\ dbUp /\ tableExists /\ rows = {})
       /\ resp'.query = "row" =>
            /\ resp'.status = 200
            /\ \E r \in rows : r.name = resp'.body
       /\ (resp'.acq = "error" \/ resp'.query = "error") =>
            (resp'.status = 500 /\ ~dbUp)]_vars

C6_Witness == resp.kind = "user" /\ resp.status = 404 /\ rows = {}

\* Process p began init_db on a database that held the table and a row.
StartedInitialized(p) ==
  startDb[p].taken /\ startDb[p].exists /\ startDb[p].rows # {}

\* C7 as stated: init_db run against a database that already holds the table
\* and a row, with no other init_db under way when it starts (sequential
\* startups), raises no error and leaves the rows as they were.
C7_NoErrorNoChange ==
  \A p \in Procs :
    (StartedInitialized(p) /\ startDb[p].sequential) =>
       (initError[p] = "none" /\ rows = startDb[p].rows)

\* C7 amended: init_db run against a database that already holds the table
\* and a row changes neither the table nor its rows in any of its steps,
\* whether it returns or raises; in sequential startups the rows stay as it
\* found them; and the only errors it raises are a configuration error
\* (DB_PORT) and a refused connection.
C7_NoChangeOnlyEnvErrors ==
  /\ [](\A p \in Procs :
          StartedInitialized(p) =>
            /\ tableExists
            /\ startDb[p].sequential => rows = startDb[p].rows
            /\ initError[p] \in {"none", "ConfigError", ConnError}
            /\ pc[p] = "aborted" <=> initError[p] # "none")
  /\ [][\A p \in Procs :
          (StartedInitialized(p) /\ pc'[p] # pc[p]) => UNCHANGED dbVars]_vars

C7_Witness ==
  \E p \in Procs :
    /\ StartedInitialized(p) /\ startDb[p].sequential
    /\ pc[p] = "done"
    /\ \E q \in Procs \ {p} : pc[q] = "done" /\ "insert" \in steps[q]

\* C8: a process is Ready (or beyond), or has entered a route handler, only if
\* its init_db returned without an error after creating the pool, ensuring the
\* table and counting the rows; a process whose init_db raised stays
\* Initializing and never enters a handler.
C8_ServeOnlyAfterInit ==
  \A p \in Procs :
    /\ (phase[p] \in Serving \/ handled[p]) =>
          /\ pc[p] = "done"
          /\ initError[p] = "none"
          /\ {"pool", "table", "count"} \subseteq steps[p]
          /\ pool[p] # "none"
          /\ tableExists /\ rows # {}
    /\ pc[p] = "aborted" =>
          (phase[p] = "Initializing" /\ ~handled[p] /\ InFlight(p) = 0)

C8_Witness ==
  \E p \in Procs : pc[p] = "aborted" /\ "count" \in steps[p]

Rank(ph) ==
  CASE ph = "Uninitialized" -> 0
    [] ph = "Initializing" -> 1
    [] ph = "Ready" -> 2
    [] ph = "Closing" -> 3
    [] ph = "Closed" -> 4

\* C9: the lifecycle of a process's pool never goes back and skips no state;
\* when it is Closed the pool is closed and no connection is checked out;
\* from then on the process runs no handler and no query and the pool stays
\* closed; pool.acquire() on a closed pool only raises.
C9_LifecycleForward ==
  /\ [](\A p \in Procs :
          phase[p] = "Closed" =>
            (pool[p] = "closed" /\ checkedOut[p] = 0 /\ InFlight(p) = 0))
  /\ [][\A p \in Procs :
          /\ Rank(phase'[p]) \in {Rank(phase[p]), Rank(phase[p]) + 1}
          /\ phase[p] = "Closed" =>
               /\ pool'[p] = "closed"
               /\ <<wait'[p], hold'[p], mark'[p], checkedOut'[p], handled'[p]>>
                    = <<wait[p], hold[p], mark[p], checkedOut[p], handled[p]>>
               /\ \A up \in BOOLEAN :
                    \A o \in PoolAcquire(pool'[p], checkedOut'[p], up) :
                       o.res = "error"]_vars

C9_Witness ==
  \E p \in Procs : phase[p] = "Closed" /\ handled[p] /\ pool[p] = "closed"

\* C10: when the deployment found settings absent or empty and every replica
\* has finished init_db, settings holds exactly one row.
C10_SingleDefaultRow ==
  (Fresh /\ \A p \in Procs : pc[p] = "done") => Cardinality(rows) = 1

====
